---------------------------- MODULE Spec2Model ----------------------------
(***************************************************************************)
(* Model of the paginated list path of the storage-gateway dashboard:      *)
(*   api/api.py       update_pagination and the five volume_*_list_paged   *)
(*   common/table.py  PagedTableMixin (__init__, _get_marker, has_*_data)  *)
(*   checkpoints/views.py, replications/views.py   get_data of the two     *)
(*                    paginated list views                                 *)
(* The remote storage-gateway service (reached through sgsclient) is the   *)
(* environment: it holds the records and answers every list call with a    *)
(* listing or with an exception.                                           *)
(* Also modelled: the name columns of replications/tables.py, the row and  *)
(* batch actions of the tables, the handle methods of the forms, and a     *)
(* browsing session that follows the next and previous links of a page,    *)
(* and the allowed methods that gate the row actions of the replications   *)
(* and volumes tables, with the rollback form a gated link leads to.       *)
(***************************************************************************)
EXTENDS Integers, Sequences, FiniteSets, TLC

VARIABLES
    backend,          \* remote records of the listed resource, in creation order
    related,          \* ids held by the remote collection of the secondary lookup
    pc,               \* "idle" | "constructed" | "rendered" | "api_done" |
                      \* "cell" | "acted" | "handled"
    op,               \* which list function / view the current operation runs
    GET,              \* request.GET of the current view request
    page_size,        \* utils.get_page_size(request) of the current request
    args,             \* (marker, sort_dir) handed to the paged list function
    rpc,              \* remote calls issued by the current operation, in order
    fetched,          \* reply of the remote service to the paged list call
    ret,              \* what the paged list function returned (or that it raised)
    _has_more_data,   \* PagedTableMixin._has_more_data of the view instance
    _has_prev_data,   \* PagedTableMixin._has_prev_data of the view instance
    rows,             \* the list get_data returned for rendering
    messages,         \* errors reported to the user through exceptions.handle
    how,              \* how the current list request arose: "url" | "open" |
                      \* "next" | "prev" | "again"
    shown,            \* the list page the user has in front of them
    walk,             \* the pages of the forward traversal under way, in order
    back,             \* shown is the page before the last page of walk
    mark              \* an earlier page the user kept the address of

vars == <<backend, related, pc, op, GET, page_size, args, rpc, fetched, ret,
          _has_more_data, _has_prev_data, rows, messages,
          how, shown, walk, back, mark>>

nav == <<how, shown, walk, back, mark>>

-----------------------------------------------------------------------------
(* Bounds *)

MaxRecords == 5

MaxPageSize == 3

-----------------------------------------------------------------------------
(* Values *)

None == "None"

AllIds == <<"a", "b", "c", "d", "e", "f", "g", "h">>

Ids == {AllIds[i] : i \in 1..MaxRecords}

RelIds == {"p", "q"}

Min(x, y) == IF x <= y THEN x ELSE y

Reverse(s) == [i \in 1..Len(s) |-> s[Len(s) + 1 - i]]

Range(s) == {s[i] : i \in 1..Len(s)}

IndexOf(s, x) == CHOOSE i \in 1..Len(s) : s[i] = x


-----------------------------------------------------------------------------
(* The remote storage-gateway service, as the list views use it: a "list  *)
(* records" operation taking limit, marker and sort, answering with the   *)
(* records sorted by the requested key and direction, starting strictly   *)
(* after the record the marker names, or with an exception.               *)

Raise == [raised |-> TRUE, list |-> <<>>]

Reply(s) == [raised |-> FALSE, list |-> s]

SortDirs == {"asc", "desc"}

SortDirOf(sort) ==
    IF sort = "created_at:asc" THEN "asc"
    ELSE IF sort = "created_at:desc" THEN "desc"
    ELSE "invalid"

Ordered(records, dir) == IF dir = "asc" THEN records ELSE Reverse(records)

After(s, marker) ==
    IF marker = None THEN s ELSE SubSeq(s, IndexOf(s, marker) + 1, Len(s))

ValidCall(records, call) ==
    /\ SortDirOf(call.sort) \in SortDirs
    /\ call.marker = None \/ call.marker \in Range(records)

Listing(records, call) == After(Ordered(records, SortDirOf(call.sort)), call.marker)

Prefixes(s) == {SubSeq(s, 1, k) : k \in 0..Len(s)}

\* A service that honours limit, marker and sort answers with exactly this.
HonestReply(records, call) ==
    IF ValidCall(records, call)
    THEN Reply(SubSeq(Listing(records, call), 1,
                      Min(call.limit, Len(Listing(records, call)))))
    ELSE Raise

\* What the service may answer: an exception (network, auth, server error,
\* unknown marker), or the listing cut at any length: at the limit, below it
\* (a server-side cap) or above it (a server that ignores the limit).
Replies(records, call) ==
    {Raise} \cup
    (IF ValidCall(records, call)
     THEN {Reply(s) : s \in Prefixes(Listing(records, call))}
     ELSE {})

AllReplies(records) ==
    {Raise} \cup
    {Reply(s) : s \in UNION {Prefixes(After(Ordered(records, d), m)) :
                             d \in SortDirs, m \in {None} \cup Range(records)}}

\* The listing of the whole secondary collection, in a fixed order.
RelatedListing(rel) ==
    (IF "p" \in rel THEN <<"p">> ELSE <<>>) \o (IF "q" \in rel THEN <<"q">> ELSE <<>>)

SecondaryReplies(rel) == {Raise, Reply(RelatedListing(rel))}

\* Attributes of the remote records that name a record of the secondary
\* collection: a checkpoint's replication, a replication's two volumes.
replication_id(id) == IF IndexOf(AllIds, id) % 2 = 1 THEN "p" ELSE "q"

master_volume(id) == "p"

slave_volume(id) == IF IndexOf(AllIds, id) % 2 = 1 THEN "q" ELSE "p"

-----------------------------------------------------------------------------
(* api/api.py *)

\* Variants of update_pagination, each with one slip, used to show that the
\* properties below depend on the code.
\* The overshoot test written with >= instead of >.
update_pagination_ge(entities, size, marker, sort_dir) ==
    IF Len(entities) >= size
    THEN <<SubSeq(entities, 1, Len(entities) - 1), TRUE, marker # None>>
    ELSE IF sort_dir = "asc" /\ marker # None
    THEN <<entities, TRUE, FALSE>>
    ELSE IF marker # None
    THEN <<entities, FALSE, TRUE>>
    ELSE <<entities, FALSE, FALSE>>

\* entities.pop(0) instead of entities.pop().
update_pagination_pop_first(entities, size, marker, sort_dir) ==
    IF Len(entities) > size
    THEN <<Tail(entities), TRUE, marker # None>>
    ELSE IF sort_dir = "asc" /\ marker # None
    THEN <<entities, TRUE, FALSE>>
    ELSE IF marker # None
    THEN <<entities, FALSE, TRUE>>
    ELSE <<entities, FALSE, FALSE>>

\* The two elif branches in the other order.
update_pagination_marker_first(entities, size, marker, sort_dir) ==
    IF Len(entities) > size
    THEN <<SubSeq(entities, 1, Len(entities) - 1), TRUE, marker # None>>
    ELSE IF marker # None
    THEN <<entities, FALSE, TRUE>>
    ELSE IF sort_dir = "asc" /\ marker # None
    THEN <<entities, TRUE, FALSE>>
    ELSE <<entities, FALSE, FALSE>>

\* The last-page branch sets has_more_data instead of has_prev_data.
update_pagination_last_more(entities, size, marker, sort_dir) ==
    IF Len(entities) > size
    THEN <<SubSeq(entities, 1, Len(entities) - 1), TRUE, marker # None>>
    ELSE IF sort_dir = "asc" /\ marker # None
    THEN <<entities, TRUE, FALSE>>
    ELSE IF marker # None
    THEN <<entities, TRUE, FALSE>>
    ELSE <<entities, FALSE, FALSE>>

\* The asc branch without its test of the marker.
update_pagination_asc_any(entities, size, marker, sort_dir) ==
    IF Len(entities) > size
    THEN <<SubSeq(entities, 1, Len(entities) - 1), TRUE, marker # None>>
    ELSE IF sort_dir = "asc"
    THEN <<entities, TRUE, FALSE>>
    ELSE IF marker # None
    THEN <<entities, FALSE, TRUE>>
    ELSE <<entities, FALSE, FALSE>>

\* Overshoot reporting a previous page only for the desc direction.
update_pagination_prev_desc_only(entities, size, marker, sort_dir) ==
    IF Len(entities) > size
    THEN <<SubSeq(entities, 1, Len(entities) - 1), TRUE,
           marker # None /\ sort_dir # "asc">>
    ELSE IF sort_dir = "asc" /\ marker # None THEN <<entities, TRUE, FALSE>>
    ELSE IF marker # None THEN <<entities, FALSE, TRUE>>
    ELSE <<entities, FALSE, FALSE>>

\* The asc branch without overshoot reporting a previous page as well.
update_pagination_asc_prev(entities, size, marker, sort_dir) ==
    IF Len(entities) > size
    THEN <<SubSeq(entities, 1, Len(entities) - 1), TRUE, marker # None>>
    ELSE IF sort_dir = "asc" /\ marker # None THEN <<entities, TRUE, TRUE>>
    ELSE IF marker # None THEN <<entities, FALSE, TRUE>>
    ELSE <<entities, FALSE, FALSE>>

update_pagination(entities, size, marker, sort_dir) ==
    IF Len(entities) > size
    THEN <<SubSeq(entities, 1, Len(entities) - 1), TRUE, marker # None>>
    ELSE IF sort_dir = "asc" /\ marker # None
    THEN <<entities, TRUE, FALSE>>
    ELSE IF marker # None
    THEN <<entities, FALSE, TRUE>>
    ELSE <<entities, FALSE, FALSE>>

\* PagedCall without the overshoot: limit=page_size.
PagedCall_no_overshoot(resource, size, marker, sort_dir) ==
    [resource |-> resource, op |-> "list", target |-> None, paged |-> TRUE, limit |-> size,
     marker |-> marker, sort |-> "created_at:" \o sort_dir]

\* The paginate=True path of one volume_*_list_paged function: the remote
\* call it issues and, given the service's reply, what it returns.
\* PagedCall that never passes the cursor on.
PagedCall_no_marker(resource, size, marker, sort_dir) ==
    [resource |-> resource, op |-> "list", target |-> None, paged |-> TRUE,
     limit |-> size + 1, marker |-> None, sort |-> "created_at:" \o sort_dir]

PagedCall(resource, size, marker, sort_dir) ==
    [resource |-> resource, op |-> "list", target |-> None, paged |-> TRUE, limit |-> size + 1,
     marker |-> marker, sort |-> "created_at:" \o sort_dir]

PagedReturn(reply, size, marker, sort_dir) ==
    IF reply.raised
    THEN [raised |-> TRUE, items |-> <<>>,
          has_more_data |-> FALSE, has_prev_data |-> FALSE]
    ELSE LET u == update_pagination(reply.list, size, marker, sort_dir)
         IN [raised |-> FALSE, items |-> u[1],
             has_more_data |-> u[2], has_prev_data |-> u[3]]

volume_backup_list_paged(size, marker, sort_dir, reply) ==
    [calls |-> <<PagedCall("backups", size, marker, sort_dir)>>,
     ret |-> PagedReturn(reply, size, marker, sort_dir)]

volume_list_paged(size, marker, sort_dir, reply) ==
    [calls |-> <<PagedCall("volumes", size, marker, sort_dir)>>,
     ret |-> PagedReturn(reply, size, marker, sort_dir)]

\* A paged list function that calls the service again after a raise.
volume_snapshot_list_paged_retry(size, marker, sort_dir, reply) ==
    [calls |-> IF reply.raised
               THEN <<PagedCall("snapshots", size, marker, sort_dir),
                      PagedCall("snapshots", size, marker, sort_dir)>>
               ELSE <<PagedCall("snapshots", size, marker, sort_dir)>>,
     ret |-> PagedReturn(reply, size, marker, sort_dir)]

volume_snapshot_list_paged(size, marker, sort_dir, reply) ==
    [calls |-> <<PagedCall("snapshots", size, marker, sort_dir)>>,
     ret |-> PagedReturn(reply, size, marker, sort_dir)]

volume_checkpoint_list_paged(size, marker, sort_dir, reply) ==
    [calls |-> <<PagedCall("checkpoints", size, marker, sort_dir)>>,
     ret |-> PagedReturn(reply, size, marker, sort_dir)]

volume_replication_list_paged(size, marker, sort_dir, reply) ==
    [calls |-> <<PagedCall("replications", size, marker, sort_dir)>>,
     ret |-> PagedReturn(reply, size, marker, sort_dir)]

\* The paginate=False path: one unbounded list call, every record returned.
UnpagedCall(resource) ==
    [resource |-> resource, op |-> "list", target |-> None, paged |-> FALSE,
     limit |-> 0, marker |-> None, sort |-> None]

\* volume_checkpoint_list: the paginate=False path of
\* volume_checkpoint_list_paged, every checkpoint the service lists.
volume_checkpoint_list(reply) ==
    [calls |-> <<UnpagedCall("checkpoints")>>,
     ret |-> [raised |-> reply.raised, items |-> reply.list]]

volume_replication_list(reply) ==
    [calls |-> <<UnpagedCall("replications")>>,
     ret |-> [raised |-> reply.raised, items |-> reply.list]]

volume_list(reply) ==
    [calls |-> <<UnpagedCall("volumes")>>,
     ret |-> [raised |-> reply.raised, items |-> reply.list]]

\* A remote call that is not a listing: <manager>.<op>(target, ...) of the
\* storage-gateway client, or a call of another service's client.
Call(resource, operation, target) ==
    [resource |-> resource, op |-> operation, target |-> target,
     paged |-> FALSE, limit |-> 0, marker |-> None, sort |-> None]

\* What the service answers to volumes.get: the volume with its attachments,
\* each carrying a server_id or lacking it, or an exception.
Attachment(server_id) == [server_id |-> server_id]

AttachmentLists == {<<>>, <<Attachment(None), Attachment("s1")>>}

AvailabilityZones == {"az1", "az2"}

VolumeRaise ==
    [raised |-> TRUE, attachments |-> <<>>, availability_zone |-> None]

VolumeReplies(rel, volume_id) ==
    {VolumeRaise} \cup
    (IF volume_id \in rel
     THEN {[raised |-> FALSE, attachments |-> atts, availability_zone |-> az] :
              atts \in AttachmentLists, az \in AvailabilityZones}
     ELSE {})

\* The attachments nova.server_get is called for, in order.
RECURSIVE ServerGets(_)
ServerGets(atts) ==
    IF atts = <<>> THEN <<>>
    ELSE (IF Head(atts).server_id # None
          THEN <<Call("nova.servers", "get", Head(atts).server_id)>>
          ELSE <<>>) \o ServerGets(Tail(atts))

\* volume_get: volumes.get, then one nova.server_get for every attachment that
\* has a server_id; nova_ok = FALSE makes the first of those raise.
volume_get(volume_id, reply, nova_ok) ==
    LET gets == ServerGets(reply.attachments)
        first == <<Call("volumes", "get", volume_id)>>
    IN IF reply.raised THEN [calls |-> first, raised |-> TRUE]
       ELSE IF gets # <<>> /\ ~nova_ok
       THEN [calls |-> first \o <<gets[1]>>, raised |-> TRUE]
       ELSE [calls |-> first \o gets, raised |-> FALSE]

Resources == {"backups", "volumes", "snapshots", "checkpoints", "replications"}

list_paged(resource, size, marker, sort_dir, reply) ==
    CASE resource = "backups" -> volume_backup_list_paged(size, marker, sort_dir, reply)
      [] resource = "volumes" -> volume_list_paged(size, marker, sort_dir, reply)
      [] resource = "snapshots" -> volume_snapshot_list_paged(size, marker, sort_dir, reply)
      [] resource = "checkpoints" -> volume_checkpoint_list_paged(size, marker, sort_dir, reply)
      [] resource = "replications" -> volume_replication_list_paged(size, marker, sort_dir, reply)

-----------------------------------------------------------------------------
(* common/table.py *)

\* Python truth of a query-string value: absent (None) and '' are both false.
Truthy(x) == x # None /\ x # ""

\* __init__ with a wrong default for one flag.
PagedTableMixin_init_more ==
    [_has_prev_data |-> FALSE, _has_more_data |-> TRUE]

\* A view whose flags are not set anew for each instance: a new instance
\* starts with what the one before it left.
PagedTableMixin_init_keep ==
    [_has_prev_data |-> _has_prev_data, _has_more_data |-> _has_more_data]

PagedTableMixin_init ==
    [_has_prev_data |-> FALSE, _has_more_data |-> FALSE]

\* _get_marker looking at the next-marker first.
_get_marker_next_first(G) ==
    IF Truthy(G.marker)
    THEN <<G.marker, "desc">>
    ELSE IF Truthy(G.prev_marker)
    THEN <<G.prev_marker, "asc">>
    ELSE <<None, "desc">>

_get_marker(G) ==
    IF Truthy(G.prev_marker)
    THEN <<G.prev_marker, "asc">>
    ELSE IF Truthy(G.marker)
    THEN <<G.marker, "desc">>
    ELSE <<None, "desc">>

PagedTableMixin_has_prev_data == _has_prev_data

PagedTableMixin_has_more_data == _has_more_data

-----------------------------------------------------------------------------
(* checkpoints/views.py, replications/views.py *)

Views == {"CheckpointsView", "ReplicationsView"}

\* tables.DataTableView brings the framework's own has_prev_data and
\* has_more_data, which report no further page whatever the instance holds.
DataTableView_has_prev_data == FALSE

DataTableView_has_more_data == FALSE

\* The method a call self.has_prev_data(table) resolves to, by the order of the
\* bases in the class statement: CheckpointsView(DataTableView, PagedTableMixin)
\* finds DataTableView's, ReplicationsView(PagedTableMixin, DataTableView)
\* finds the mixin's.
has_prev_data(view) ==
    IF view = "CheckpointsView"
    THEN DataTableView_has_prev_data
    ELSE PagedTableMixin_has_prev_data

has_more_data(view) ==
    IF view = "CheckpointsView"
    THEN DataTableView_has_more_data
    ELSE PagedTableMixin_has_more_data

\* dict.get(key, None) on the dict built from the secondary listing
DictGet(listing, key) == IF key \in Range(listing) THEN key ELSE None

\* One run of CheckpointsView.get_data on the view instance self, with the
\* replies the service gives to its remote calls.
CheckpointsView_get_data(self, G, size, reply1, reply2) ==
    LET md == _get_marker(G)
        paged == volume_checkpoint_list_paged(size, md[1], md[2], reply1)
        second == volume_replication_list(reply2)
        checkpoints == IF paged.ret.raised THEN <<>> ELSE paged.ret.items
        replications == IF paged.ret.raised \/ second.ret.raised
                        THEN <<>> ELSE second.ret.items
    IN [args |-> md,
        rpc |-> IF paged.ret.raised THEN paged.calls
                ELSE paged.calls \o second.calls,
        ret |-> paged.ret,
        _has_more_data |-> IF paged.ret.raised THEN self._has_more_data
                           ELSE paged.ret.has_more_data,
        _has_prev_data |-> IF paged.ret.raised THEN self._has_prev_data
                           ELSE paged.ret.has_prev_data,
        messages |-> IF paged.ret.raised \/ second.ret.raised
                     THEN <<"Unable to retrieve volume checkpoints.">>
                     ELSE <<>>,
        rows |-> [i \in 1..Len(checkpoints) |->
                    [id |-> checkpoints[i],
                     refs |-> <<DictGet(replications,
                                        replication_id(checkpoints[i]))>>]]]

\* One run of ReplicationsView.get_data.
ReplicationsView_get_data(self, G, size, reply1, reply2) ==
    LET md == _get_marker(G)
        paged == volume_replication_list_paged(size, md[1], md[2], reply1)
        second == volume_list(reply2)
        replications == IF paged.ret.raised THEN <<>> ELSE paged.ret.items
        volumes == IF paged.ret.raised \/ second.ret.raised
                   THEN <<>> ELSE second.ret.items
    IN [args |-> md,
        rpc |-> IF paged.ret.raised THEN paged.calls
                ELSE paged.calls \o second.calls,
        ret |-> paged.ret,
        _has_more_data |-> IF paged.ret.raised THEN self._has_more_data
                           ELSE paged.ret.has_more_data,
        _has_prev_data |-> IF paged.ret.raised THEN self._has_prev_data
                           ELSE paged.ret.has_prev_data,
        messages |-> IF paged.ret.raised \/ second.ret.raised
                     THEN <<"Unable to retrieve volume replications.">>
                     ELSE <<>>,
        rows |-> [i \in 1..Len(replications) |->
                    [id |-> replications[i],
                     refs |-> <<DictGet(volumes, master_volume(replications[i])),
                                DictGet(volumes, slave_volume(replications[i]))>>]]]

get_data(view, self, G, size, reply1, reply2) ==
    IF view = "CheckpointsView"
    THEN CheckpointsView_get_data(self, G, size, reply1, reply2)
    ELSE ReplicationsView_get_data(self, G, size, reply1, reply2)

-----------------------------------------------------------------------------
(* replications/tables.py: the two volume-name columns *)

Columns == {"MasterVolumeNameColumn", "SlaveVolumeNameColumn"}

ColumnMethods == {"get_raw_data", "get_link_url"}

\* get_raw_data and get_link_url of MasterVolumeNameColumn both start with
\* sg_api.volume_get(request, replication.master_volume); what differs is the
\* value they build from the volume.
\* A column that shows the volume get_data attached to the row (_master)
\* and asks the service nothing.
MasterVolumeNameColumn_get_raw_data_cached(replication, reply, nova_ok) ==
    [calls |-> <<>>, raised |-> FALSE]

MasterVolumeNameColumn_get_raw_data(replication, reply, nova_ok) ==
    volume_get(master_volume(replication), reply, nova_ok)

MasterVolumeNameColumn_get_link_url(replication, reply, nova_ok) ==
    volume_get(master_volume(replication), reply, nova_ok)

SlaveVolumeNameColumn_get_raw_data(replication, reply, nova_ok) ==
    volume_get(slave_volume(replication), reply, nova_ok)

SlaveVolumeNameColumn_get_link_url(replication, reply, nova_ok) ==
    volume_get(slave_volume(replication), reply, nova_ok)

ColumnVolume(column, replication) ==
    IF column = "MasterVolumeNameColumn"
    THEN master_volume(replication) ELSE slave_volume(replication)

ColumnCall(column, method, replication, reply, nova_ok) ==
    CASE column = "MasterVolumeNameColumn" /\ method = "get_raw_data" ->
           MasterVolumeNameColumn_get_raw_data(replication, reply, nova_ok)
      [] column = "MasterVolumeNameColumn" /\ method = "get_link_url" ->
           MasterVolumeNameColumn_get_link_url(replication, reply, nova_ok)
      [] column = "SlaveVolumeNameColumn" /\ method = "get_raw_data" ->
           SlaveVolumeNameColumn_get_raw_data(replication, reply, nova_ok)
      [] OTHER ->
           SlaveVolumeNameColumn_get_link_url(replication, reply, nova_ok)

-----------------------------------------------------------------------------
(* Row and batch actions: volumes/tables.py, replications/tables.py,       *)
(* snapshots/tables.py, checkpoints/tables.py.  Each operator gives the    *)
(* remote calls one run of the action's delete/action method issues for    *)
(* obj_id; ok tells whether the remote call answers or raises, and the     *)
(* method lets the exception pass to the framework.                        *)

DisableVolume_delete(obj_id, ok) ==
    [calls |-> <<Call("volumes", "disable", obj_id)>>, raised |-> ~ok]

\* An action that asks for another operation than the one it is named after.
DeleteVolume_action_disables(obj_id, ok) ==
    [calls |-> <<Call("volumes", "disable", obj_id)>>, raised |-> ~ok]

DeleteVolume_action(obj_id, ok) ==
    [calls |-> <<Call("volumes", "delete", obj_id)>>, raised |-> ~ok]

\* AttachmentsTable.get_object_by_id: the first row whose 'id' is obj_id; no
\* such row raises ValueError.
get_object_by_id(data, obj_id) ==
    LET hits == {i \in 1..Len(data) : data[i].id = obj_id}
    IN IF hits = {} THEN [raised |-> TRUE, obj |-> <<>>]
       ELSE [raised |-> FALSE,
             obj |-> <<data[CHOOSE i \in hits : \A j \in hits : i <= j]>>]

\* DetachVolume.action looks the attachment up in the table's rows and
\* detaches its volume_id from its server_id; a failed lookup raises before
\* any remote call.
DetachVolume_action(obj_id, ok, data) ==
    LET found == get_object_by_id(data, obj_id)
    IN IF found.raised
       THEN [calls |-> <<>>, raised |-> TRUE]
       ELSE LET attachment == found.obj[1]
            IN [calls |-> <<Call("volumes", "detach",
                                 <<attachment.volume_id, attachment.server_id>>)>>,
                raised |-> ~ok]

DisableReplication_action(obj_id, ok) ==
    [calls |-> <<Call("replications", "disable", obj_id)>>, raised |-> ~ok]

EnableReplication_action(obj_id, ok) ==
    [calls |-> <<Call("replications", "enable", obj_id)>>, raised |-> ~ok]

FailoverReplication_action(obj_id, ok) ==
    [calls |-> <<Call("replications", "failover", obj_id)>>, raised |-> ~ok]

ReverseReplication_action(obj_id, ok) ==
    [calls |-> <<Call("replications", "reverse", obj_id)>>, raised |-> ~ok]

DeleteReplication_delete(obj_id, ok) ==
    [calls |-> <<Call("replications", "delete", obj_id)>>, raised |-> ~ok]

DeleteVolumeSnapshot_delete(obj_id, ok) ==
    [calls |-> <<Call("snapshots", "delete", obj_id)>>, raised |-> ~ok]

DeleteVolumeCheckpoint_delete(obj_id, ok) ==
    [calls |-> <<Call("checkpoints", "delete", obj_id)>>, raised |-> ~ok]

TableActions ==
    {"DisableVolume", "DeleteVolume", "DetachVolume", "DisableReplication",
     "EnableReplication", "FailoverReplication", "ReverseReplication",
     "DeleteReplication", "DeleteVolumeSnapshot", "DeleteVolumeCheckpoint"}

\* Rows the attachments table can hold: the attachment's own id, the volume
\* and the server it joins.
AttachmentRow(id, volume_id, server_id) ==
    [id |-> id, volume_id |-> volume_id, server_id |-> server_id]

AttachmentTables ==
    {<<AttachmentRow("a", "p", "s1")>>,
     <<AttachmentRow("a", "p", "s1"), AttachmentRow("b", "p", "s2")>>,
     <<AttachmentRow("p", "p", "s1"), AttachmentRow("q", "q", None)>>}

NoTable == <<>>

run_action(action, obj_id, ok, data) ==
    CASE action = "DisableVolume" -> DisableVolume_delete(obj_id, ok)
      [] action = "DeleteVolume" -> DeleteVolume_action(obj_id, ok)
      [] action = "DetachVolume" -> DetachVolume_action(obj_id, ok, data)
      [] action = "DisableReplication" -> DisableReplication_action(obj_id, ok)
      [] action = "EnableReplication" -> EnableReplication_action(obj_id, ok)
      [] action = "FailoverReplication" -> FailoverReplication_action(obj_id, ok)
      [] action = "ReverseReplication" -> ReverseReplication_action(obj_id, ok)
      [] action = "DeleteReplication" -> DeleteReplication_delete(obj_id, ok)
      [] action = "DeleteVolumeSnapshot" -> DeleteVolumeSnapshot_delete(obj_id, ok)
      [] OTHER -> DeleteVolumeCheckpoint_delete(obj_id, ok)

-----------------------------------------------------------------------------
(* replications/forms.py: handle of the four forms.  Each operator gives   *)
(* the remote calls of one run of handle on cleaned data, what it returns  *)
(* ("error" when it leaves through exceptions.handle with a redirect) and  *)
(* the message it shows.                                                   *)

Handled(calls, result, message) ==
    [calls |-> calls, result |-> result, messages |-> <<message>>]

\* A CreateForm that trusts the chosen volumes and asks the service only to
\* create the replication.
replications_CreateForm_handle_no_lookup(data, master_reply, slave_reply, nova_ok, ok) ==
    LET create == <<Call("replications", "create",
                         <<data.master_volume, data.slave_volume>>)>>
    IN IF ok THEN Handled(create, "replication", "Creating replication")
       ELSE Handled(create, "error", "Unable to create replication.")

\* A CreateForm that compares the two ids but not the availability zones.
replications_CreateForm_handle_no_zone_check(data, master_reply, slave_reply, nova_ok, ok) ==
    LET master_vol == volume_get(data.master_volume, master_reply, nova_ok)
        slave_vol == volume_get(data.slave_volume, slave_reply, nova_ok)
        lookups == master_vol.calls \o slave_vol.calls
        create == <<Call("replications", "create",
                         <<data.master_volume, data.slave_volume>>)>>
    IN IF master_vol.raised
       THEN Handled(master_vol.calls, "error", "Unable to create replication.")
       ELSE IF slave_vol.raised
       THEN Handled(lookups, "error", "Unable to create replication.")
       ELSE IF data.master_volume = data.slave_volume
       THEN Handled(lookups, "False",
                    "The slave volume and master volume can not be the same")
       ELSE IF ~ok
       THEN Handled(lookups \o create, "error", "Unable to create replication.")
       ELSE Handled(lookups \o create, "replication", "Creating replication")

replications_CreateForm_handle(data, master_reply, slave_reply, nova_ok, ok) ==
    LET master_vol == volume_get(data.master_volume, master_reply, nova_ok)
        slave_vol == volume_get(data.slave_volume, slave_reply, nova_ok)
        lookups == master_vol.calls \o slave_vol.calls
        create == <<Call("replications", "create",
                         <<data.master_volume, data.slave_volume>>)>>
    IN IF master_vol.raised
       THEN Handled(master_vol.calls, "error", "Unable to create replication.")
       ELSE IF slave_vol.raised
       THEN Handled(lookups, "error", "Unable to create replication.")
       ELSE IF data.master_volume = data.slave_volume
       THEN Handled(lookups, "False",
                    "The slave volume and master volume can not be the same")
       ELSE IF master_reply.availability_zone = slave_reply.availability_zone
       THEN Handled(lookups, "False",
                    "The slave volume and master volume can not be the same availability_zone")
       ELSE IF ~ok
       THEN Handled(lookups \o create, "error", "Unable to create replication.")
       ELSE Handled(lookups \o create, "replication", "Creating replication")

CreateCheckpointForm_handle(data, ok) ==
    LET create == <<Call("checkpoints", "create", data.replication_id)>>
    IN IF ok THEN Handled(create, "checkpoint", "Creating replication checkpoint")
       ELSE Handled(create, "error", "Unable to create checkpoint.")

RollbackForm_handle(data, ok) ==
    LET rollback == <<Call("checkpoints", "rollback", data.checkpoint)>>
    IN IF ok THEN Handled(rollback, "rollback", "Rollback replication to checkpoint")
       ELSE Handled(rollback, "error", "Unable to rollback replication.")

replications_UpdateForm_handle(initial, ok) ==
    LET update == <<Call("replications", "update", initial.replication_id)>>
    IN IF ok THEN Handled(update, "True", "Updating replication")
       ELSE Handled(update, "error", "Unable to update replication.")

-----------------------------------------------------------------------------
(* volumes/forms.py: handle of the five forms *)

\* CreateForm.handle.  data holds the cleaned fields (a deleted field is
\* None); env holds what the lookups answer: the remaining quota, the size of
\* the snapshot's volume, the initial of the size field, and which remote
\* call, if any, raises.
volumes_CreateForm_handle(data, env) ==
    LET source_type == data.volume_source_type
        from_snapshot == /\ Truthy(data.snapshot_source)
                         /\ source_type \in {"", None, "snapshot_source"}
        from_checkpoint == /\ Truthy(data.checkpoint_source)
                           /\ source_type \in {"", None, "checkpoint_source"}
        usages == <<Call("quotas", "tenant_limit_usages", None)>>
        get_snapshot == <<Call("snapshots", "get", data.snapshot_source)>>
        orig_volume == <<Call("cinder.volumes", "get",
                              <<"volume_id", data.snapshot_source>>)>>
        snapshot_calls == IF from_snapshot THEN get_snapshot \o orig_volume
                          ELSE <<>>
        get_checkpoint == <<Call("checkpoints", "get", data.snapshot_source)>>
        snapshot_id == IF from_snapshot THEN data.snapshot_source ELSE None
        checkpoint_id == IF from_checkpoint THEN data.snapshot_source ELSE None
        create == <<Call("volumes", "create",
                         [size |-> data.size, snapshot_id |-> snapshot_id,
                          checkpoint_id |-> checkpoint_id])>>
        lookups == usages \o snapshot_calls \o
                   (IF from_checkpoint THEN get_checkpoint ELSE <<>>)
        unable == "Unable to create volume."
    IN IF env.failure = "quota"
       THEN Handled(usages, "error", unable)
       ELSE IF from_snapshot /\ env.failure = "snapshot"
       THEN Handled(usages \o get_snapshot, "error", unable)
       ELSE IF from_snapshot /\ env.failure = "cinder"
       THEN Handled(usages \o snapshot_calls, "error", unable)
       ELSE IF from_snapshot /\ data.size < env.orig_size
       THEN Handled(usages \o snapshot_calls, "False",
                    "The volume size cannot be less than the snapshot size")
       ELSE IF from_checkpoint /\ data.snapshot_source = None
       THEN Handled(usages \o snapshot_calls, "error", unable)
       ELSE IF from_checkpoint /\ env.failure = "checkpoint"
       THEN Handled(lookups, "error", unable)
       ELSE IF from_checkpoint /\ data.size < env.check_size
       THEN Handled(lookups, "False",
                    "The volume size cannot be less than the master_volume size")
       ELSE IF env.availableGB < data.size
       THEN Handled(lookups, "False",
                    "A volume of this size cannot be created with the quota available")
       ELSE IF env.availableVol <= 0
       THEN Handled(lookups, "False",
                    "You are already using all of your available volumes.")
       ELSE IF env.failure = "create"
       THEN Handled(lookups \o create, "error", unable)
       ELSE Handled(lookups \o create, "volume", "Creating volume")

\* AttachForm.handle: after volume_attach the handler evaluates
\* data('volume_id'), a call of the dict, which raises TypeError; the
\* volume_get that takes it as argument is never issued.
AttachForm_handle(data, ok) ==
    LET attach == <<Call("volumes", "attach", <<data.volume_id, data.instance>>)>>
    IN Handled(attach, "error", "Unable to attach volume.")

CreateSnapshotForm_handle(data, reply, nova_ok, ok) ==
    LET volume == volume_get(data.volume_id, reply, nova_ok)
        create == <<Call("snapshots", "create", data.volume_id)>>
    IN IF volume.raised
       THEN Handled(volume.calls, "error", "Unable to create volume snapshot.")
       ELSE IF ~ok
       THEN Handled(volume.calls \o create, "error",
                    "Unable to create volume snapshot.")
       ELSE Handled(volume.calls \o create, "snapshot", "Creating volume snapshot")

volumes_UpdateForm_handle(initial, ok) ==
    LET update == <<Call("volumes", "update", initial.volume_id)>>
    IN IF ok THEN Handled(update, "True", "Updating volume")
       ELSE Handled(update, "error", "Unable to update volume.")

\* What cinder.volume_get gives EnableForm.handle: an exception, a false
\* value, or the volume.
CinderReplies == {"raise", "none", "volume"}

EnableForm_handle(data, cinder_reply, ok) ==
    LET lookup == <<Call("cinder.volumes", "get", data.volume_id)>>
        enable == <<Call("volumes", "enable", data.volume_id)>>
    IN IF cinder_reply = "raise"
       THEN Handled(lookup, "error", "Unable to enable volume")
       ELSE IF cinder_reply = "none"
       THEN Handled(lookup, "None", "Volume not exist")
       ELSE IF ~ok
       THEN Handled(lookup \o enable, "error", "Unable to enable volume")
       ELSE Handled(lookup \o enable, "volume", "Enabling volume")

Forms ==
    {"replications.CreateForm", "CreateCheckpointForm", "RollbackForm",
     "replications.UpdateForm", "volumes.CreateForm", "AttachForm",
     "CreateSnapshotForm", "volumes.UpdateForm", "EnableForm"}

-----------------------------------------------------------------------------
(* The state machine *)

NoGET == [prev_marker |-> None, marker |-> None]

NoRet == [raised |-> FALSE, items |-> <<>>,
          has_more_data |-> FALSE, has_prev_data |-> FALSE]

\* No list page.
NoPage == [view |-> None, size |-> 0, GET |-> NoGET, reply |-> Raise,
           ids |-> <<>>, more |-> FALSE, prev |-> FALSE,
           has_more_data |-> FALSE, has_prev_data |-> FALSE]

\* The remote collections hold any number of records up to MaxRecords,
\* created in the order of AllIds; no operation of the list path changes them.
Init ==
    /\ \E n \in 0..MaxRecords : backend = SubSeq(AllIds, 1, n)
    /\ related \in SUBSET RelIds
    /\ pc = "idle"
    /\ op = None
    /\ GET = NoGET
    /\ page_size = 1
    /\ args = <<None, "desc">>
    /\ rpc = <<>>
    /\ fetched = Reply(<<>>)
    /\ ret = NoRet
    /\ _has_more_data = FALSE
    /\ _has_prev_data = FALSE
    /\ rows = <<>>
    /\ messages = <<>>
    /\ how = "url"
    /\ shown = NoPage
    /\ walk = <<>>
    /\ back = FALSE
    /\ mark = NoPage

QueryValues == {None, ""} \cup Ids

\* A list request arrives: the framework builds a fresh view instance for it
\* (PagedTableMixin.__init__) and hands it the request.
Construct(view, prev, next, size) ==
    /\ pc = "idle"
    /\ pc' = "constructed"
    /\ op' = view
    /\ GET' = [prev_marker |-> prev, marker |-> next]
    /\ page_size' = size
    /\ _has_more_data' = PagedTableMixin_init._has_more_data
    /\ _has_prev_data' = PagedTableMixin_init._has_prev_data
    /\ args' = <<None, "desc">>
    /\ rpc' = <<>>
    /\ fetched' = Reply(<<>>)
    /\ ret' = NoRet
    /\ rows' = <<>>
    /\ messages' = <<>>
    /\ UNCHANGED <<backend, related>>

\* A request with any query string, typed in or sent by a client.
Request(view, prev, next, size) ==
    /\ Construct(view, prev, next, size)
    /\ how' = "url"
    /\ UNCHANGED <<shown, walk, back, mark>>

\* The view serves the request: get_data runs to its end.
GetData ==
    /\ pc = "constructed"
    /\ \E reply1 \in AllReplies(backend), reply2 \in SecondaryReplies(related) :
         LET self == [_has_more_data |-> _has_more_data,
                      _has_prev_data |-> _has_prev_data]
             g == get_data(op, self, GET, page_size, reply1, reply2)
         IN /\ reply1 \in Replies(backend, g.rpc[1])
            /\ Len(g.rpc) < 2 => reply2 = Raise
            /\ pc' = "rendered"
            /\ args' = g.args
            /\ rpc' = g.rpc
            /\ fetched' = reply1
            /\ ret' = g.ret
            /\ _has_more_data' = g._has_more_data
            /\ _has_prev_data' = g._has_prev_data
            /\ rows' = g.rows
            /\ messages' = g.messages
    /\ UNCHANGED <<backend, related, op, GET, page_size>>
    /\ UNCHANGED nav

\* One of the five paged list functions is called with paginate=True.
ListPaged(resource, size, marker, sort_dir) ==
    /\ pc = "idle"
    /\ \E reply \in AllReplies(backend) :
         LET r == list_paged(resource, size, marker, sort_dir, reply)
         IN /\ reply \in Replies(backend, r.calls[1])
            /\ pc' = "api_done"
            /\ op' = resource
            /\ page_size' = size
            /\ args' = <<marker, sort_dir>>
            /\ rpc' = r.calls
            /\ fetched' = reply
            /\ ret' = r.ret
    /\ GET' = NoGET
    /\ _has_more_data' = FALSE
    /\ _has_prev_data' = FALSE
    /\ rows' = <<>>
    /\ messages' = <<>>
    /\ UNCHANGED <<backend, related>>
    /\ UNCHANGED nav

\* The replications table renders a volume-name cell of one of the rows
\* get_data returned: one call of the column's get_raw_data or get_link_url.
\* Its remote calls follow those of get_data in rpc.
RenderCell(i, column, method) ==
    /\ pc = "rendered"
    /\ op = "ReplicationsView"
    /\ i \in 1..Len(rows)
    /\ \E reply \in VolumeReplies(related, ColumnVolume(column, rows[i].id)),
          nova_ok \in BOOLEAN :
         LET c == ColumnCall(column, method, rows[i].id, reply, nova_ok)
         IN /\ pc' = "cell"
            /\ op' = column
            /\ args' = <<rows[i].id, Len(rpc)>>
            /\ rpc' = rpc \o c.calls
            /\ ret' = [raised |-> c.raised]
    /\ UNCHANGED <<backend, related, GET, page_size, fetched,
                   _has_more_data, _has_prev_data, rows, messages>>
    /\ UNCHANGED nav

\* The framework runs a row or batch action for one object id of the table
\* the action belongs to (it looks every id up in the table's rows before it
\* runs the action on it).
TableAction(action, obj_id, ok, data) ==
    /\ pc = "idle"
    /\ IF action = "DetachVolume"
       THEN data \in AttachmentTables /\ obj_id \in {data[i].id : i \in 1..Len(data)}
       ELSE data = NoTable /\ obj_id \in Ids \cup RelIds
    /\ LET r == run_action(action, obj_id, ok, data)
       IN /\ pc' = "acted"
          /\ op' = action
          /\ args' = <<obj_id, data>>
          /\ rpc' = r.calls
          /\ ret' = [raised |-> r.raised]
    /\ UNCHANGED <<backend, related, GET, page_size, fetched,
                   _has_more_data, _has_prev_data, rows, messages>>
    /\ UNCHANGED nav

\* The operation is over: the response is sent, and the view instance and
\* every value of the request are dropped.
Finish ==
    /\ pc \in {"rendered", "api_done", "cell", "acted", "handled"}
    /\ pc' = "idle"
    /\ op' = None
    /\ GET' = NoGET
    /\ page_size' = 1
    /\ args' = <<None, "desc">>
    /\ rpc' = <<>>
    /\ fetched' = Reply(<<>>)
    /\ ret' = NoRet
    /\ _has_more_data' = FALSE
    /\ _has_prev_data' = FALSE
    /\ rows' = <<>>
    /\ messages' = <<>>
    /\ UNCHANGED <<backend, related>>
    /\ UNCHANGED nav

Next ==
    \/ \E view \in Views, prev \in QueryValues, next \in QueryValues,
          size \in 1..MaxPageSize : Request(view, prev, next, size)
    \/ GetData
    \/ \E resource \in Resources, size \in 1..MaxPageSize,
          marker \in {None} \cup Ids, sort_dir \in SortDirs :
            ListPaged(resource, size, marker, sort_dir)
    \/ \E i \in 1..MaxRecords, column \in Columns, method \in ColumnMethods :
            RenderCell(i, column, method)
    \/ \E action \in TableActions, obj_id \in Ids \cup RelIds, ok \in BOOLEAN,
          data \in AttachmentTables \cup {NoTable} :
            TableAction(action, obj_id, ok, data)
    \/ Finish

Spec == Init /\ [][Next]_vars

-----------------------------------------------------------------------------
(* Form submissions *)

\* handle of a form has run on cleaned data: args holds the data, fetched
\* what the remote services answered, rpc the remote calls it issued.
Submit(form, data, env, h) ==
    /\ pc' = "handled"
    /\ op' = form
    /\ args' = data
    /\ fetched' = env
    /\ rpc' = h.calls
    /\ ret' = [result |-> h.result]
    /\ messages' = h.messages
    /\ UNCHANGED <<backend, related, GET, page_size,
                   _has_more_data, _has_prev_data, rows>>
    /\ UNCHANGED nav

SubmitReplicationCreate ==
    /\ pc = "idle"
    /\ \E master \in RelIds, slave \in RelIds, nova_ok \in BOOLEAN, ok \in BOOLEAN :
         \E master_reply \in VolumeReplies(related, master),
            slave_reply \in VolumeReplies(related, slave) :
           LET data == [master_volume |-> master, slave_volume |-> slave]
           IN Submit("replications.CreateForm", data,
                     [master |-> master_reply, slave |-> slave_reply,
                      nova_ok |-> nova_ok, ok |-> ok],
                     replications_CreateForm_handle(data, master_reply,
                                                    slave_reply, nova_ok, ok))

SubmitCreateCheckpoint ==
    /\ pc = "idle"
    /\ \E rid \in RelIds, ok \in BOOLEAN :
           LET data == [replication_id |-> rid]
           IN Submit("CreateCheckpointForm", data, [ok |-> ok],
                     CreateCheckpointForm_handle(data, ok))

SubmitRollback ==
    /\ pc = "idle"
    /\ \E checkpoint \in Ids, ok \in BOOLEAN :
           LET data == [checkpoint |-> checkpoint]
           IN Submit("RollbackForm", data, [ok |-> ok],
                     RollbackForm_handle(data, ok))

SubmitReplicationUpdate ==
    /\ pc = "idle"
    /\ \E rid \in RelIds, ok \in BOOLEAN :
           LET initial == [replication_id |-> rid]
           IN Submit("replications.UpdateForm", initial, [ok |-> ok],
                     replications_UpdateForm_handle(initial, ok))

MaxSize == 2

SourceTypes == {None, "no_source_type", "snapshot_source", "checkpoint_source"}

CreateFailures == {"none", "quota", "snapshot", "cinder", "checkpoint", "create"}

SubmitVolumeCreate ==
    /\ pc = "idle"
    /\ \E size \in 1..MaxSize, source_type \in SourceTypes,
          snapshot_source \in {None, "", "snap"},
          checkpoint_source \in {"", "ckpt"},
          failure \in CreateFailures,
          availableGB \in 1..MaxSize, availableVol \in 0..1,
          source_size \in 1..MaxSize :
           LET data == [size |-> size, volume_source_type |-> source_type,
                        snapshot_source |-> snapshot_source,
                        checkpoint_source |-> checkpoint_source]
               env == [failure |-> failure, availableGB |-> availableGB,
                       availableVol |-> availableVol, orig_size |-> source_size,
                       check_size |-> source_size]
           IN Submit("volumes.CreateForm", data, env,
                     volumes_CreateForm_handle(data, env))

\* ok: the service answers volume_attach; volume_ok: it would answer a
\* volume_get of the attached volume.

SubmitAttach ==
    /\ pc = "idle"
    /\ \E volume_id \in RelIds, instance \in {"s1", "s2"}, ok \in BOOLEAN,
          volume_ok \in BOOLEAN :
           LET data == [volume_id |-> volume_id, instance |-> instance]
           IN Submit("AttachForm", data, [ok |-> ok, volume_ok |-> volume_ok],
                     AttachForm_handle(data, ok))

SubmitCreateSnapshot ==
    /\ pc = "idle"
    /\ \E volume_id \in RelIds, nova_ok \in BOOLEAN, ok \in BOOLEAN :
         \E reply \in VolumeReplies(related, volume_id) :
           LET data == [volume_id |-> volume_id]
           IN Submit("CreateSnapshotForm", data,
                     [volume |-> reply, nova_ok |-> nova_ok, ok |-> ok],
                     CreateSnapshotForm_handle(data, reply, nova_ok, ok))

SubmitVolumeUpdate ==
    /\ pc = "idle"
    /\ \E volume_id \in RelIds, ok \in BOOLEAN :
           LET initial == [volume_id |-> volume_id]
           IN Submit("volumes.UpdateForm", initial, [ok |-> ok],
                     volumes_UpdateForm_handle(initial, ok))

SubmitEnable ==
    /\ pc = "idle"
    /\ \E volume_id \in RelIds, cinder_reply \in CinderReplies, ok \in BOOLEAN :
           LET data == [volume_id |-> volume_id]
           IN Submit("EnableForm", data, [cinder |-> cinder_reply, ok |-> ok],
                     EnableForm_handle(data, cinder_reply, ok))

FormNext ==
    \/ SubmitReplicationCreate
    \/ SubmitCreateCheckpoint
    \/ SubmitRollback
    \/ SubmitReplicationUpdate
    \/ SubmitVolumeCreate
    \/ SubmitAttach
    \/ SubmitCreateSnapshot
    \/ SubmitVolumeUpdate
    \/ SubmitEnable
    \/ Finish

\* The forms do not read the paged collection; one size of it is enough.
FormInit == Init /\ Len(backend) = 1

FormSpec == FormInit /\ [][FormNext]_vars

-----------------------------------------------------------------------------
(* Navigation: a user opens a list view and follows the links of the pages *)
(* shown.  The table's next link carries the id of its last row as the     *)
(* next-marker, its prev link the id of its first row as the prev-marker;  *)
(* the page size is the user's setting and stays the same.                 *)

RowIds == [i \in 1..Len(rows) |-> rows[i].id]

\* The service answered the paged list call with exactly what was asked.
Honest == ~fetched.raised /\ fetched = HonestReply(backend, rpc[1])

\* The page get_data has just produced.
ThisPage ==
    [view |-> op, size |-> page_size, GET |-> GET, reply |-> fetched,
     ids |-> RowIds,
     more |-> ret.has_more_data, prev |-> ret.has_prev_data,
     has_more_data |-> has_more_data(op), has_prev_data |-> has_prev_data(op)]

\* The user opens the list view: no marker in the request.
NavOpen(view, size) ==
    /\ Construct(view, None, None, size)
    /\ how' = "open"
    /\ shown' = NoPage
    /\ walk' = <<>>
    /\ back' = FALSE
    /\ mark' = NoPage

\* The user asks for the page after the one shown.
NavNext ==
    /\ pc = "idle"
    /\ shown.ids # <<>> /\ shown.more
    /\ Construct(shown.view, None, shown.ids[Len(shown.ids)], shown.size)
    /\ how' = "next"
    /\ UNCHANGED <<shown, walk, back, mark>>

\* The user asks for the page before the one shown.
NavPrev ==
    /\ pc = "idle"
    /\ shown.ids # <<>> /\ shown.prev
    /\ Construct(shown.view, shown.ids[1], None, shown.size)
    /\ how' = "prev"
    /\ UNCHANGED <<shown, walk, back, mark>>

\* The user sends the request of the kept address once more.
NavAgain ==
    /\ pc = "idle"
    /\ mark # NoPage
    /\ Construct(mark.view, mark.GET.prev_marker, mark.GET.marker, mark.size)
    /\ how' = "again"
    /\ UNCHANGED <<shown, walk, back, mark>>

\* get_data answered by a service that honours the call or raises, the
\* secondary listing answered.
NavGetData ==
    /\ GetData
    /\ fetched'.raised \/ fetched' = HonestReply(backend, rpc'[1])
    /\ messages' = <<>> \/ fetched'.raised

\* The page is shown and the request is over.  The forward traversal goes on
\* while every page of it comes from the next link of the page before and
\* from an honest answer; the view instance is dropped as it is.
NavFinish(keep) ==
    /\ pc = "rendered"
    /\ shown' = ThisPage
    /\ walk' = IF how = "open" /\ Honest THEN <<ThisPage>>
               ELSE IF how = "next" /\ Honest /\ walk # <<>> /\ ~back
               THEN Append(walk, ThisPage)
               ELSE IF how = "prev" /\ Honest /\ Len(walk) >= 2 /\ ~back
               THEN walk
               ELSE <<>>
    /\ back' = (how = "prev" /\ Honest /\ Len(walk) >= 2 /\ ~back)
    /\ mark' = IF keep /\ mark = NoPage THEN ThisPage ELSE mark
    /\ pc' = "idle"
    /\ op' = None
    /\ GET' = NoGET
    /\ page_size' = 1
    /\ args' = <<None, "desc">>
    /\ rpc' = <<>>
    /\ fetched' = Reply(<<>>)
    /\ ret' = NoRet
    /\ rows' = <<>>
    /\ messages' = <<>>
    /\ UNCHANGED <<backend, related, how, _has_more_data, _has_prev_data>>

NavStep ==
    \/ \E view \in Views, size \in 1..MaxPageSize : NavOpen(view, size)
    \/ NavNext
    \/ NavPrev
    \/ NavAgain
    \/ NavGetData
    \/ \E keep \in BOOLEAN : NavFinish(keep)

\* The secondary collection plays no part in which rows a page holds.
NavInit == Init /\ related = RelIds

NavSpec == NavInit /\ [][NavStep]_vars

-----------------------------------------------------------------------------
(* replications/tables.py, volumes/tables.py: allowed of the row actions.  *)
(* A row datum is a record of the table's collection; the framework calls  *)
(* allowed with no datum when it renders an action for the whole table.    *)

ReplicationStatuses ==
    {"creating", "error", "enabling", "failing-over", "reversing",
     "rolling-back", "enabled", "disabled", "failed-over", "deleted"}

VolumeStatuses ==
    {"in-use", "available", "creating", "error", "enabling", "enabled",
     "disabled"}

ReplicationRow(id, status) == [id |-> id, status |-> status]

NoReplication == ReplicationRow(None, None)

VolumeRow(id, status, replicate_status) ==
    [id |-> id, status |-> status, replicate_status |-> replicate_status]

NoVolume == VolumeRow(None, None, None)

\* What allowed gives: the remote calls it made and its answer; raised when
\* it ends with an exception, which the table takes as "not allowed".
Gate(calls, allowed) == [calls |-> calls, allowed |-> allowed, raised |-> FALSE]

GateRaised(calls) == [calls |-> calls, allowed |-> FALSE, raised |-> TRUE]

\* A deletable set that also holds the running state.
REPLICATION_DELETABLE_STATES_with_enabled ==
    {"error", "disabled", "failed-over", "enabled"}

REPLICATION_DELETABLE_STATES == {"error", "disabled", "failed-over"}

DisableReplication_allowed(replication) ==
    IF replication # NoReplication
    THEN Gate(<<>>, replication.status \in {"enabled"})
    ELSE Gate(<<>>, TRUE)

EnableReplication_allowed(replication) ==
    IF replication # NoReplication
    THEN Gate(<<>>, replication.status \in {"disabled"})
    ELSE Gate(<<>>, TRUE)

\* replication.status of no datum is an attribute error.
CreateCheckpoint_allowed(replication) ==
    IF replication = NoReplication THEN GateRaised(<<>>)
    ELSE Gate(<<>>, replication.status \in {"enabled"})

\* A gate that looks at the status only.
RollbackReplication_allowed_status_only(replication, reply) ==
    IF replication # NoReplication /\ replication.status = "enabled"
    THEN LET checkpoints == volume_checkpoint_list(reply)
         IN IF checkpoints.ret.raised THEN GateRaised(checkpoints.calls)
            ELSE Gate(checkpoints.calls, TRUE)
    ELSE Gate(<<>>, FALSE)

\* RollbackReplication.allowed lists every checkpoint and looks for one of
\* this replication.
RollbackReplication_allowed(replication, reply) ==
    IF replication # NoReplication /\ replication.status = "enabled"
    THEN LET checkpoints == volume_checkpoint_list(reply)
         IN IF checkpoints.ret.raised THEN GateRaised(checkpoints.calls)
            ELSE Gate(checkpoints.calls,
                      \E i \in 1..Len(checkpoints.ret.items) :
                          replication_id(checkpoints.ret.items[i]) = replication.id)
    ELSE Gate(<<>>, FALSE)

DeleteReplication_allowed(replication) ==
    IF replication # NoReplication
    THEN Gate(<<>>, replication.status \in REPLICATION_DELETABLE_STATES)
    ELSE Gate(<<>>, TRUE)

FailoverReplication_allowed(replication) ==
    IF replication # NoReplication
    THEN Gate(<<>>, replication.status \in {"enabled"})
    ELSE Gate(<<>>, TRUE)

ReverseReplication_allowed(replication) ==
    IF replication # NoReplication
    THEN Gate(<<>>, replication.status \in {"failed-over"})
    ELSE Gate(<<>>, TRUE)

ReplicationGates ==
    {"DisableReplication", "EnableReplication", "CreateCheckpoint",
     "RollbackReplication", "DeleteReplication", "FailoverReplication",
     "ReverseReplication"}

replication_allowed(action, replication, reply) ==
    CASE action = "DisableReplication" -> DisableReplication_allowed(replication)
      [] action = "EnableReplication" -> EnableReplication_allowed(replication)
      [] action = "CreateCheckpoint" -> CreateCheckpoint_allowed(replication)
      [] action = "RollbackReplication" ->
            RollbackReplication_allowed(replication, reply)
      [] action = "DeleteReplication" -> DeleteReplication_allowed(replication)
      [] action = "FailoverReplication" -> FailoverReplication_allowed(replication)
      [] OTHER -> ReverseReplication_allowed(replication)

DISABLE_STATES == {"enabled"}

REP_DISABLE_STATES == {"deleted", "disabled", None}

DELETABLE_STATES == {"available", "error"}

\* A gate that looks at the volume's own status only.
DisableVolume_allowed_status_only(volume) ==
    IF volume # NoVolume
    THEN Gate(<<>>, volume.status \in DISABLE_STATES)
    ELSE Gate(<<>>, TRUE)

DisableVolume_allowed(volume) ==
    IF volume # NoVolume
    THEN Gate(<<>>, /\ volume.status \in DISABLE_STATES
                    /\ volume.replicate_status \in REP_DISABLE_STATES)
    ELSE Gate(<<>>, TRUE)

DeleteVolume_allowed(volume) ==
    IF volume # NoVolume
    THEN Gate(<<>>, volume.status \in DELETABLE_STATES)
    ELSE Gate(<<>>, TRUE)

VolumeGates == {"DisableVolume", "DeleteVolume"}

volume_allowed(action, volume) ==
    IF action = "DisableVolume" THEN DisableVolume_allowed(volume)
    ELSE DeleteVolume_allowed(volume)

\* The actions the table shows for a datum: those whose allowed answered
\* True.
Shown(gates) == {a \in DOMAIN gates : gates[a].allowed /\ ~gates[a].raised}

-----------------------------------------------------------------------------
(* replications/views.py RollbackReplication, replications/forms.py        *)
(* RollbackForm.__init__: the choices of the checkpoint field.             *)

\* The checkpoints of the list, in order, that name this replication.
RECURSIVE CheckpointsOf(_, _)
CheckpointsOf(checkpoint_list, rid) ==
    IF checkpoint_list = <<>> THEN <<>>
    ELSE (IF replication_id(Head(checkpoint_list)) = rid
          THEN <<Head(checkpoint_list)>> ELSE <<>>)
         \o CheckpointsOf(Tail(checkpoint_list), rid)

\* The values of the choices: the placeholder "" first, then the checkpoint
\* ids.
RollbackForm_init(rid, checkpoint_list) ==
    LET checkpoints == CheckpointsOf(checkpoint_list, rid)
    IN IF checkpoints # <<>> THEN <<"">> \o checkpoints ELSE <<"">>

\* get_initial lists the checkpoints; when the list call raises the view
\* redirects and no form is built.
RollbackReplication_get_initial(rid, reply) ==
    LET checkpoints == volume_checkpoint_list(reply)
    IN [calls |-> checkpoints.calls,
        result |-> IF checkpoints.ret.raised THEN "error" ELSE "form",
        choices |-> IF checkpoints.ret.raised THEN <<>>
                    ELSE RollbackForm_init(rid, checkpoints.ret.items)]

-----------------------------------------------------------------------------
(* Row gating *)

\* The complete listing of the collection, or an exception.
Listings == {Raise, Reply(Reverse(backend))}

\* The replications table renders the actions of one row (or, with no
\* datum, of the table): allowed of every action is asked.  rpc holds the
\* calls made, ret the actions shown.
GateReplication ==
    /\ pc = "idle"
    /\ \E replication \in {NoReplication} \cup
                          {ReplicationRow(id, status) :
                              id \in RelIds, status \in ReplicationStatuses},
          reply \in Listings :
         LET gates == [a \in ReplicationGates |->
                          replication_allowed(a, replication, reply)]
             calls == gates["RollbackReplication"].calls
         IN /\ pc' = "gated"
            /\ op' = "VolumeReplicationsTable"
            /\ args' = replication
            /\ fetched' = IF calls = <<>> THEN Reply(<<>>) ELSE reply
            /\ rpc' = calls
            /\ ret' = [allowed |-> Shown(gates)]
    /\ UNCHANGED <<backend, related, GET, page_size, _has_more_data,
                   _has_prev_data, rows, messages>>
    /\ UNCHANGED nav

GateVolume ==
    /\ pc = "idle"
    /\ \E volume \in {NoVolume} \cup
                     {VolumeRow(id, status, replicate_status) :
                         id \in RelIds, status \in VolumeStatuses,
                         replicate_status \in ReplicationStatuses \cup {None}} :
         LET gates == [a \in VolumeGates |-> volume_allowed(a, volume)]
         IN /\ pc' = "gated"
            /\ op' = "VolumesTable"
            /\ args' = volume
            /\ ret' = [allowed |-> Shown(gates)]
    /\ UNCHANGED <<backend, related, GET, page_size, fetched, rpc,
                   _has_more_data, _has_prev_data, rows, messages>>
    /\ UNCHANGED nav

\* The rollback form of the replication of the row is opened, by the row's
\* link (shown only when RollbackReplication is allowed) or by its address.
OpenRollbackForm ==
    /\ pc = "gated" /\ op = "VolumeReplicationsTable" /\ args # NoReplication
    /\ \E via \in {"link", "url"}, reply \in Listings :
         LET initial == RollbackReplication_get_initial(args.id, reply)
         IN /\ via = "link" => "RollbackReplication" \in ret.allowed
            /\ how' = via
            /\ pc' = "form"
            /\ op' = "RollbackForm"
            /\ fetched' = reply
            /\ rpc' = initial.calls
            /\ ret' = [result |-> initial.result, choices |-> initial.choices]
    /\ UNCHANGED <<backend, related, GET, page_size, args, _has_more_data,
                   _has_prev_data, rows, messages>>
    /\ UNCHANGED <<shown, walk, back, mark>>

GateFinish ==
    /\ pc \in {"gated", "form"}
    /\ pc' = "idle"
    /\ op' = None
    /\ args' = <<None, "desc">>
    /\ rpc' = <<>>
    /\ fetched' = Reply(<<>>)
    /\ ret' = NoRet
    /\ how' = "url"
    /\ UNCHANGED <<backend, related, GET, page_size, _has_more_data,
                   _has_prev_data, rows, messages>>
    /\ UNCHANGED <<shown, walk, back, mark>>

GateNext ==
    \/ GateReplication
    \/ GateVolume
    \/ OpenRollbackForm
    \/ GateFinish

\* The gates read the checkpoints and nothing of the secondary collection.
GateInit == Init /\ related = RelIds

GateSpec == GateInit /\ [][GateNext]_vars

-----------------------------------------------------------------------------
(* Properties *)

\* A paged list function has run to its end (directly, or inside get_data).
Done == pc \in {"rendered", "api_done"}

\* It returned a page: the remote list call did not raise.
Returned == Done /\ ~fetched.raised

\* The remote service honoured limit, marker and sort of the call it got.
Honoured == Returned /\ fetched = HonestReply(backend, rpc[1])

Fetched == fetched.list

ResourceOf(o) ==
    CASE o = "CheckpointsView" -> "checkpoints"
      [] o = "ReplicationsView" -> "replications"
      [] OTHER -> o

\* C1: whatever the remote service returned, the page a paged list function
\* returns holds at most page_size items.
C1_PageWithinPageSize == Returned => Len(ret.items) <= page_size

\* C2: a first-page request (no cursor, desc) to a service that honours limit,
\* marker and sort returns the min(N, page_size) newest records, newest first,
\* with has_more = (N > page_size) and has_prev = false.
C2_FirstPage ==
    (Honoured /\ args = <<None, "desc">>) =>
        /\ ~ret.raised
        /\ ret.items = SubSeq(Reverse(backend), 1, Min(Len(backend), page_size))
        /\ ret.has_more_data = (Len(backend) > page_size)
        /\ ret.has_prev_data = FALSE

\* The boundary N = page_size + 1: the overshoot record is fetched and dropped.
C2_Witness ==
    /\ Honoured /\ args = <<None, "desc">>
    /\ Len(backend) = page_size + 1
    /\ Len(Fetched) = page_size + 1
    /\ Len(ret.items) = page_size
    /\ ret.has_more_data

\* C3: when more than page_size records were fetched, exactly the last one is
\* removed, the order of the others is kept, has_more is true and has_prev is
\* true exactly when the marker is not None, for either direction.
C3_Overshoot ==
    (Returned /\ Len(Fetched) > page_size) =>
        /\ ret.items = SubSeq(Fetched, 1, Len(Fetched) - 1)
        /\ ret.has_more_data = TRUE
        /\ ret.has_prev_data = (args[1] # None)

C3_Witness ==
    /\ Returned /\ Len(Fetched) > page_size
    /\ args[1] # None /\ args[2] = "asc"
    /\ Len(ret.items) >= 2
    /\ ret.has_prev_data

\* C4: when at most page_size records were fetched, the direction is asc and
\* the marker is not None, has_more is true, has_prev is false and no record
\* is removed.
C4_FirstPageViaPrev ==
    (Returned /\ Len(Fetched) <= page_size /\ args[2] = "asc" /\ args[1] # None) =>
        /\ ret.items = Fetched
        /\ ret.has_more_data = TRUE
        /\ ret.has_prev_data = FALSE

\* has_prev stays false although the service holds records before the page.
C4_Witness ==
    /\ Honoured /\ Len(Fetched) <= page_size
    /\ args[2] = "asc" /\ args[1] # None
    /\ Len(ret.items) >= 1
    /\ Len(backend) > Len(ret.items) + 1
    /\ ~ret.has_prev_data

\* C5: when at most page_size records were fetched, the marker is not None and
\* the direction is not asc, has_prev is true, has_more is false and no record
\* is removed.
C5_LastPage ==
    (Returned /\ Len(Fetched) <= page_size /\ args[1] # None /\ args[2] # "asc") =>
        /\ ret.items = Fetched
        /\ ret.has_prev_data = TRUE
        /\ ret.has_more_data = FALSE

C5_Witness ==
    /\ Returned /\ Len(Fetched) <= page_size
    /\ args[1] # None /\ args[2] = "desc"
    /\ Len(ret.items) >= 1
    /\ ret.has_prev_data /\ ~ret.has_more_data

\* C6: when at most page_size records were fetched and the marker is None,
\* both flags are false and the list is returned unchanged, for either
\* direction.
C6_OnlyPage ==
    (Returned /\ Len(Fetched) <= page_size /\ args[1] = None) =>
        /\ ret.items = Fetched
        /\ ret.has_more_data = FALSE
        /\ ret.has_prev_data = FALSE

C6_Witness ==
    /\ Returned /\ Len(Fetched) <= page_size
    /\ args = <<None, "asc">>
    /\ Len(ret.items) >= 1
    /\ ~ret.has_more_data /\ ~ret.has_prev_data

\* C7: every paginated fetch, of each of the five resources, calls the remote
\* list operation of that resource with limit = page_size + 1, marker = the
\* cursor of the request and the single sort key created_at in the requested
\* direction.
C7_RemoteListCall ==
    Done =>
        /\ Len(rpc) >= 1
        /\ rpc[1].resource = ResourceOf(op)
        /\ rpc[1].paged
        /\ rpc[1].limit = page_size + 1
        /\ rpc[1].marker = args[1]
        /\ rpc[1].sort = (IF args[2] = "asc" THEN "created_at:asc"
                          ELSE "created_at:desc")

C7_Witness ==
    /\ pc = "rendered" /\ op = "CheckpointsView"
    /\ GET.prev_marker \in Ids
    /\ rpc[1].marker = GET.prev_marker
    /\ rpc[1].sort = "created_at:asc"
    /\ rpc[1].limit = page_size + 1
    /\ page_size > 1

Absent(x) == x = None

Empty(x) == x = None \/ x = ""

\* C8 (as stated): a prev-marker that is present gives (prev-marker, asc);
\* otherwise a next-marker that is present gives (next-marker, desc);
\* otherwise (None, desc).
C8_MarkerWhenPresent ==
    pc = "rendered" =>
        /\ ~Absent(GET.prev_marker) => args = <<GET.prev_marker, "asc">>
        /\ (Absent(GET.prev_marker) /\ ~Absent(GET.marker)) =>
               args = <<GET.marker, "desc">>
        /\ (Absent(GET.prev_marker) /\ Absent(GET.marker)) =>
               args = <<None, "desc">>

\* C8 (amended): the same with "present" read as "present and not empty";
\* asc never comes with a None cursor.
C8_MarkerWhenNonEmpty ==
    pc = "rendered" =>
        /\ ~Empty(GET.prev_marker) => args = <<GET.prev_marker, "asc">>
        /\ (Empty(GET.prev_marker) /\ ~Empty(GET.marker)) =>
               args = <<GET.marker, "desc">>
        /\ (Empty(GET.prev_marker) /\ Empty(GET.marker)) =>
               args = <<None, "desc">>
        /\ ~(args[2] = "asc" /\ args[1] = None)

\* Both parameters supplied, the prev-marker empty: the next-marker is used.
C8_Witness ==
    /\ pc = "rendered"
    /\ GET.prev_marker = "" /\ GET.marker \in Ids
    /\ args = <<GET.marker, "desc">>

\* C9: when the remote list call of a paginated list request raises, get_data
\* returns no item and the view reports has_more = has_prev = false.
C9_RaiseGivesEmptyPage ==
    (pc = "rendered" /\ fetched.raised) =>
        /\ rows = <<>>
        /\ has_more_data(op) = FALSE
        /\ has_prev_data(op) = FALSE

\* The request carried a cursor of an existing record, and the call raised.
C9_Witness ==
    /\ pc = "rendered" /\ fetched.raised
    /\ GET.marker \in Range(backend)
    /\ Len(rpc) = 1
    /\ messages # <<>>
    /\ rows = <<>>

\* C10: whenever get_data reports a retrieval error to the user, the list it
\* returns for rendering is empty.
C10_ErrorGivesEmptyRows ==
    (pc = "rendered" /\ messages # <<>>) => rows = <<>>

Backend5 == SubSeq(AllIds, 1, 5)

\* The request of the scenario: page_size 2 over [a, b, c, d, e], cursor b,
\* direction asc, answered by a service that honours the call.
ScenarioD ==
    /\ Honoured /\ backend = Backend5 /\ page_size = 2
    /\ args = <<"b", "asc">>

\* C12 (as stated): the scenario fetches [c, d], no more than page_size, and
\* returns [c, d] with has_more = true and has_prev = false.
C12_ScenarioD_TwoFetched ==
    ScenarioD =>
        /\ Fetched = <<"c", "d">>
        /\ ret.items = <<"c", "d">>
        /\ ret.has_more_data = TRUE
        /\ ret.has_prev_data = FALSE

\* C12 (amended): the scenario fetches [c, d, e], one more than page_size,
\* drops e and returns [c, d] with has_more = true and has_prev = true.
C12_ScenarioD_Overshoot ==
    ScenarioD =>
        /\ Fetched = <<"c", "d", "e">>
        /\ ret.items = <<"c", "d">>
        /\ ret.has_more_data = TRUE
        /\ ret.has_prev_data = TRUE

C12_Witness ==
    /\ ScenarioD /\ pc = "rendered"
    /\ GET.prev_marker = "b"
    /\ rpc[1].limit = 3
    /\ Len(rows) = 2

PagedCalls == {i \in 1..Len(rpc) : rpc[i].paged}

\* C14: one call of a paged list function issues the remote list call exactly
\* once, whether it answers or raises; when it raises, the function raises to
\* its caller and does not call again.
C14_OneListCallNoRetry ==
    /\ Done => Cardinality(PagedCalls) = 1
    /\ pc = "api_done" =>
          /\ Len(rpc) = 1
          /\ ret.raised = fetched.raised
          /\ fetched.raised => ret.items = <<>>

C14_Witness ==
    /\ pc = "api_done" /\ op = "snapshots"
    /\ args[1] \in Range(backend)
    /\ fetched.raised /\ ret.raised
    /\ rpc = <<PagedCall("snapshots", page_size, args[1], args[2])>>

\* C16: after a get_data whose paged list call returned, has_more_data(table)
\* and has_prev_data(table) of the view give the two flags that call returned.
C16_ViewReportsReturnedFlags ==
    (pc = "rendered" /\ ~fetched.raised) =>
        /\ has_more_data(op) = ret.has_more_data
        /\ has_prev_data(op) = ret.has_prev_data

SecondaryOf(view) ==
    IF view = "CheckpointsView" THEN "replications" ELSE "volumes"

\* C15 (as stated): one execution of get_data, and the rendering of a
\* volume-name cell of its rows, issues exactly one remote call.
C15_OneRemoteCall ==
    pc \in {"rendered", "cell"} => Len(rpc) = 1

\* C15 (amended): get_data issues the paged list call and, when that call
\* returns, one unpaged list call of the related collection: two remote calls,
\* or one when the paged call raises; every call of a volume-name column's
\* get_raw_data or get_link_url issues one more volumes.get for the row's
\* volume, followed only by nova server lookups for that volume's attachments.
C15_ListCallsAndCellCalls ==
    /\ pc = "rendered" =>
          /\ Len(rpc) = (IF fetched.raised THEN 1 ELSE 2)
          /\ rpc[1].paged
          /\ ~fetched.raised => rpc[2] = UnpagedCall(SecondaryOf(op))
    /\ pc = "cell" =>
          /\ args[2] = 2
          /\ Len(rpc) >= 3
          /\ rpc[3] = Call("volumes", "get", ColumnVolume(op, args[1]))
          /\ \A j \in 4..Len(rpc) : rpc[j].resource = "nova.servers"

\* A slave-volume cell whose volume has an attachment: four remote calls.
C15_Witness ==
    /\ pc = "cell" /\ op = "SlaveVolumeNameColumn"
    /\ Len(rows) >= 2 /\ args[1] = rows[2].id
    /\ Len(rpc) = 4
    /\ rpc[2] = UnpagedCall("volumes")
    /\ rpc[4].resource = "nova.servers"
    /\ ~ret.raised

\* Records are created in the order of backend: a later position is newer.
Pos(id) == IndexOf(backend, id)

NewerThanAll(items) ==
    \E r \in Range(backend) : \A x \in Range(items) : Pos(r) > Pos(x)

OlderThanAll(items) ==
    \E r \in Range(backend) : \A x \in Range(items) : Pos(r) < Pos(x)

\* A request with no cursor or the cursor of an existing record, desc or
\* asc with a cursor, answered by a service that honours the call.
ValidNavigation ==
    /\ Honoured
    /\ args[1] = None \/ args[1] \in Range(backend)
    /\ args[2] = "asc" => args[1] # None

\* C19 (as stated): on such a request has_prev is true exactly when some record
\* is newer than every item of the returned page, and has_more is true exactly
\* when some record is older than every item of it.
C19_FlagsTruthful ==
    ValidNavigation =>
        /\ ret.has_prev_data = NewerThanAll(ret.items)
        /\ ret.has_more_data = OlderThanAll(ret.items)

\* C19 (amended): the same for every such request that returns at least one
\* item; a request with a cursor that returns no item reports the cursor's
\* side only: has_prev for desc, has_more for asc.
C19_FlagsTruthfulOnItems ==
    /\ (ValidNavigation /\ ret.items # <<>>) =>
          /\ ret.has_prev_data = NewerThanAll(ret.items)
          /\ ret.has_more_data = OlderThanAll(ret.items)
    /\ (ValidNavigation /\ ret.items = <<>> /\ args[1] # None) =>
          /\ ret.has_prev_data = (args[2] # "asc")
          /\ ret.has_more_data = (args[2] = "asc")

\* An asc page that reaches the newest record without overshoot: has_prev is
\* false, and truly no record is newer.
C19_Witness ==
    /\ ValidNavigation /\ pc = "rendered"
    /\ args[2] = "asc"
    /\ Len(Fetched) = page_size /\ page_size >= 2
    /\ ret.items[Len(ret.items)] = backend[Len(backend)]
    /\ ~ret.has_prev_data /\ ret.has_more_data
    /\ Pos(args[1]) >= 2

\* The remote operation each action is named after.
NamedOperation(action) ==
    CASE action = "DisableVolume" -> <<"volumes", "disable">>
      [] action = "DeleteVolume" -> <<"volumes", "delete">>
      [] action = "DetachVolume" -> <<"volumes", "detach">>
      [] action = "DisableReplication" -> <<"replications", "disable">>
      [] action = "EnableReplication" -> <<"replications", "enable">>
      [] action = "FailoverReplication" -> <<"replications", "failover">>
      [] action = "ReverseReplication" -> <<"replications", "reverse">>
      [] action = "DeleteReplication" -> <<"replications", "delete">>
      [] action = "DeleteVolumeSnapshot" -> <<"snapshots", "delete">>
      [] action = "DeleteVolumeCheckpoint" -> <<"checkpoints", "delete">>

\* The object the id names: the id itself, and for DetachVolume the volume
\* and server of the attachment row with that id.
NamedObject(action, obj_id, data) ==
    IF action = "DetachVolume"
    THEN LET row == CHOOSE r \in Range(data) : r.id = obj_id
         IN <<row.volume_id, row.server_id>>
    ELSE obj_id

\* C17: every row or batch action run for one object id issues exactly one
\* remote storage-gateway call: the operation the action is named after, on
\* the object that id names, whether the call answers or raises.
C17_OneCallPerAction ==
    pc = "acted" =>
        /\ Len(rpc) = 1
        /\ rpc[1].resource = NamedOperation(op)[1]
        /\ rpc[1].op = NamedOperation(op)[2]
        /\ rpc[1].target = NamedObject(op, args[1], args[2])
        /\ ~rpc[1].paged

\* The second attachment of a two-row table is detached.
C17_Witness ==
    /\ pc = "acted" /\ op = "DetachVolume"
    /\ Len(args[2]) = 2 /\ args[1] = args[2][2].id
    /\ rpc = <<Call("volumes", "detach", <<"p", "s2">>)>>
    /\ ~ret.raised

\* A remote call that changes something at the service it goes to.
Mutating(call) == call.op \notin {"get", "list", "tenant_limit_usages"}

Writes == {i \in 1..Len(rpc) : Mutating(rpc[i])}

\* The operation each form exists to request.
FormWrite(form) ==
    CASE form = "replications.CreateForm" -> <<"replications", "create">>
      [] form = "CreateCheckpointForm" -> <<"checkpoints", "create">>
      [] form = "RollbackForm" -> <<"checkpoints", "rollback">>
      [] form = "replications.UpdateForm" -> <<"replications", "update">>
      [] form = "volumes.CreateForm" -> <<"volumes", "create">>
      [] form = "AttachForm" -> <<"volumes", "attach">>
      [] form = "CreateSnapshotForm" -> <<"snapshots", "create">>
      [] form = "volumes.UpdateForm" -> <<"volumes", "update">>
      [] form = "EnableForm" -> <<"volumes", "enable">>

\* handle returned what the operation gave, not False, None or an error.
Succeeded == pc = "handled" /\ ret.result \notin {"error", "False", "None"}

VolumeGets == {i \in 1..Len(rpc) : rpc[i].resource = "volumes" /\ rpc[i].op = "get"}

\* C18 (as stated): a submission that handle accepts issues exactly one
\* remote call.
C18_OneCallPerSubmission == Succeeded => Len(rpc) = 1

\* C18 (amended): a submission issues at most one state-changing remote call,
\* the form's own operation, as its last call, and exactly one when handle
\* succeeds; the four forms CreateCheckpointForm, RollbackForm and the two
\* UpdateForms issue that call alone, AttachForm always issues its attach
\* call, and the others look records up first: replications CreateForm both
\* volumes, CreateSnapshotForm the volume, EnableForm the cinder volume,
\* volumes CreateForm the quota usage.
C18_OneWritePerSubmission ==
    pc = "handled" =>
        /\ Cardinality(Writes) <= 1
        /\ Writes # {} =>
              /\ Writes = {Len(rpc)}
              /\ <<rpc[Len(rpc)].resource, rpc[Len(rpc)].op>> = FormWrite(op)
        /\ Succeeded => Cardinality(Writes) = 1
        /\ op \in {"CreateCheckpointForm", "RollbackForm",
                   "replications.UpdateForm", "volumes.UpdateForm"} =>
              Len(rpc) = 1 /\ Writes = {1}
        /\ op = "AttachForm" => Writes = {1}
        /\ (Succeeded /\ op = "replications.CreateForm") =>
              /\ Cardinality(VolumeGets) = 2
              /\ {rpc[i].target : i \in VolumeGets} =
                     {args.master_volume, args.slave_volume}
        /\ (Succeeded /\ op = "CreateSnapshotForm") =>
              /\ Len(rpc) >= 2
              /\ rpc[1] = Call("volumes", "get", args.volume_id)
        /\ (Succeeded /\ op = "EnableForm") =>
              /\ Len(rpc) = 2
              /\ rpc[1] = Call("cinder.volumes", "get", args.volume_id)
        /\ (Succeeded /\ op = "volumes.CreateForm") =>
              /\ Len(rpc) >= 2
              /\ rpc[1] = Call("quotas", "tenant_limit_usages", None)

\* A replication is created after two volume lookups, one of which also
\* asked nova for an attached server.
C18_Witness ==
    /\ Succeeded /\ op = "replications.CreateForm"
    /\ Len(rpc) = 4
    /\ rpc[1] = Call("volumes", "get", "p")
    /\ rpc[4] = Call("replications", "create", <<"p", "q">>)
    /\ fetched.master.availability_zone # fetched.slave.availability_zone

\* The i-th chunk of page_size records of the descending order.
Chunk(i, size) ==
    SubSeq(Reverse(backend), (i - 1) * size + 1, Min(i * size, Len(backend)))

\* C11: in a forward traversal of an unchanged collection (first page, then
\* always the page after the last item shown) the i-th page is the i-th chunk
\* of page_size records of the descending order, so every record is shown
\* exactly once; has_more is true on every page before the last, has_prev on
\* every page after the first, and the traversal ends, with has_more false, on
\* the page that holds the oldest record.
C11_ForwardTraversal ==
    /\ \A i \in 1..Len(walk) :
          /\ walk[i].ids = Chunk(i, walk[i].size)
          /\ walk[i].size = walk[1].size
          /\ walk[i].more = (i * walk[i].size < Len(backend))
          /\ walk[i].prev = (i > 1)
          /\ i < Len(walk) => walk[i].more
    /\ \A i \in 1..Len(walk) :
          ~walk[i].more =>
              /\ i = Len(walk)
              /\ backend # <<>> => walk[i].ids[Len(walk[i].ids)] = backend[1]
              /\ Len(backend) <= i * walk[i].size

\* Page size 2 over [a, b, c, d, e]: [e, d], [c, b], [a].
C11_Witness ==
    /\ pc = "idle" /\ Len(walk) = 3
    /\ walk[1].ids = <<"e", "d">> /\ walk[2].ids = <<"c", "b">>
    /\ walk[3].ids = <<"a">>
    /\ ~walk[3].more /\ walk[3].prev
    /\ shown = walk[3]

\* C13: a request sent again and given the same answer by the service returns
\* the same items and the same flags as the first time, whatever requests,
\* answered or failed, the view served in between.
C13_SameRequestSameOutput ==
    (pc = "rendered" /\ how = "again" /\ fetched = mark.reply) =>
        /\ RowIds = mark.ids
        /\ ret.has_more_data = mark.more
        /\ ret.has_prev_data = mark.prev
        /\ has_more_data(op) = mark.has_more_data
        /\ has_prev_data(op) = mark.has_prev_data

\* A middle page sent again after a later page and a failed request.
C13_Witness ==
    /\ pc = "rendered" /\ how = "again" /\ fetched = mark.reply
    /\ op = "ReplicationsView"
    /\ mark.GET.marker \in Ids
    /\ mark.more /\ mark.prev
    /\ shown.reply.raised
    /\ Len(RowIds) >= 2

\* C20: from a page P reached by forward navigation and not the first, the
\* prev request (cursor = first item of P) followed by the next request
\* (cursor = last item of the list get_data returned for that previous page)
\* returns P again.
C20_PrevNextRoundTrip ==
    (pc = "rendered" /\ how = "next" /\ back /\ Honest) =>
        RowIds = walk[Len(walk)].ids

-----------------------------------------------------------------------------
(* Guards of the forms *)

\* handle of the replication CreateForm has run.
ReplicationCreateHandled == pc = "handled" /\ op = "replications.CreateForm"

\* Both volume lookups of the replication CreateForm were answered: the two
\* volumes.get calls and every nova.server_get they led to.
BothVolumesFound ==
    /\ ~fetched.master.raised /\ ~fetched.slave.raised
    /\ fetched.nova_ok \/ (ServerGets(fetched.master.attachments) = <<>> /\
                           ServerGets(fetched.slave.attachments) = <<>>)

SameVolume == args.master_volume = args.slave_volume

SameZone ==
    /\ BothVolumesFound
    /\ fetched.master.availability_zone = fetched.slave.availability_zone

CreateCalls(resource) ==
    {i \in 1..Len(rpc) : rpc[i].resource = resource /\ rpc[i].op = "create"}

\* C21 (as stated): when the chosen master and slave ids are equal, or the
\* two volumes report the same availability zone, handle issues no
\* volume_replication_create, reports a form error and returns False.
C21_RejectedReturnsFalse ==
    (ReplicationCreateHandled /\ (SameVolume \/ SameZone)) =>
        /\ CreateCalls("replications") = {}
        /\ ret.result = "False"

\* C21 (amended): handle issues volume_replication_create only after both
\* volume lookups were answered, for two distinct ids whose volumes report
\* distinct availability zones; with both lookups answered, equal ids or
\* equal zones give a form error and the return value False; when a lookup
\* raises, handle leaves through exceptions.handle with "Unable to create
\* replication." instead, equal ids or not, again without a create call.
C21_CreateOnlyDistinct ==
    ReplicationCreateHandled =>
        /\ CreateCalls("replications") # {} =>
              /\ BothVolumesFound
              /\ ~SameVolume
              /\ ~SameZone
              /\ CreateCalls("replications") = {Len(rpc)}
              /\ rpc[Len(rpc)].target = <<args.master_volume, args.slave_volume>>
        /\ (BothVolumesFound /\ (SameVolume \/ SameZone)) =>
              /\ CreateCalls("replications") = {}
              /\ ret.result = "False"
              /\ messages \in
                    {<<"The slave volume and master volume can not be the same">>,
                     <<"The slave volume and master volume can not be the same availability_zone">>}
        /\ ~BothVolumesFound =>
              /\ CreateCalls("replications") = {}
              /\ ret.result = "error"
              /\ messages = <<"Unable to create replication.">>

\* Two distinct volumes of one availability zone are refused after both
\* lookups.
C21_Witness ==
    /\ ReplicationCreateHandled
    /\ ~SameVolume /\ SameZone
    /\ ret.result = "False"
    /\ Len(rpc) >= 2
    /\ CreateCalls("replications") = {}

\* handle of the volume CreateForm has run.
VolumeCreateHandled == pc = "handled" /\ op = "volumes.CreateForm"

\* The quota lookup was answered, so the remaining quota is known.
QuotaKnown == fetched.failure # "quota"

OverQuota == QuotaKnown /\ fetched.availableGB < args.size

NoSlot == QuotaKnown /\ fetched.availableVol <= 0

FromSnapshot ==
    /\ Truthy(args.snapshot_source)
    /\ args.volume_source_type \in {"", None, "snapshot_source"}

FromCheckpoint ==
    /\ Truthy(args.checkpoint_source)
    /\ args.volume_source_type \in {"", None, "checkpoint_source"}

\* The snapshot and its volume were found and the volume is larger than the
\* requested size.
SnapshotTooSmall ==
    /\ FromSnapshot
    /\ fetched.failure \notin {"quota", "snapshot", "cinder"}
    /\ args.size < fetched.orig_size

\* C22: when the requested size exceeds the remaining gigabyte quota, when no
\* volume slot remains, or when a snapshot source is used and the requested
\* size is smaller than the size of the snapshot's volume, handle issues no
\* volume_create, reports a form error, returns False and issues no call that
\* changes the backend.
C22_RejectedReturnsFalse ==
    (VolumeCreateHandled /\ (OverQuota \/ NoSlot \/ SnapshotTooSmall)) =>
        /\ CreateCalls("volumes") = {}
        /\ Writes = {}
        /\ ret.result = "False"

\* The same with every remote call answered: only the form's own checks
\* decide.
C22_RejectedReturnsFalseAllAnswered ==
    (VolumeCreateHandled /\ fetched.failure = "none" /\
     (OverQuota \/ NoSlot \/ SnapshotTooSmall)) =>
        /\ CreateCalls("volumes") = {}
        /\ Writes = {}
        /\ ret.result = "False"

\* The part of C22 that holds: no volume_create and no other state-changing
\* call in any of the three cases.
C22_RejectedNeverCreates ==
    (VolumeCreateHandled /\ (OverQuota \/ NoSlot \/ SnapshotTooSmall)) =>
        /\ CreateCalls("volumes") = {}
        /\ Writes = {}
        /\ ret.result \in {"False", "error"}

CheckpointGets ==
    {i \in 1..Len(rpc) : rpc[i].resource = "checkpoints" /\ rpc[i].op = "get"}

\* Every remote call is answered and none of the form's size and quota
\* checks rejects the data.
VolumeCreateAccepted ==
    /\ fetched.failure = "none"
    /\ ~OverQuota /\ ~NoSlot /\ ~SnapshotTooSmall
    /\ args.size >= fetched.check_size

\* C23: when a volume is created from a checkpoint (non-empty
\* checkpoint_source, volume_source_type '', None or 'checkpoint_source'),
\* handle looks up the checkpoint named by checkpoint_source and passes that
\* checkpoint's id as checkpoint_id to volume_create, with snapshot_id None
\* when no snapshot source was selected.
C23_CheckpointSourceUsed ==
    (VolumeCreateHandled /\ FromCheckpoint) =>
        /\ \A i \in CheckpointGets : rpc[i].target = args.checkpoint_source
        /\ \A i \in CreateCalls("volumes") :
              /\ rpc[i].target.checkpoint_id = args.checkpoint_source
              /\ ~Truthy(args.snapshot_source) =>
                    rpc[i].target.snapshot_id = None
        /\ VolumeCreateAccepted =>
              CheckpointGets # {} /\ CreateCalls("volumes") # {}

\* C24: AttachForm.handle returns True with the 'Attaching volume' message
\* whenever the service answers volume_attach and the volume lookup after it;
\* 'Unable to attach volume.' is shown only when one of the two calls fails.
C24_AttachReportsSuccess ==
    (pc = "handled" /\ op = "AttachForm") =>
        /\ (fetched.ok /\ fetched.volume_ok) =>
              /\ ret.result = "True"
              /\ messages = <<"Attaching volume">>
        /\ messages = <<"Unable to attach volume.">> =>
              ~fetched.ok \/ ~fetched.volume_ok

-----------------------------------------------------------------------------
(* Gating of the row actions *)

\* The replications table has asked allowed of its actions for a row.
ReplicationGated ==
    pc = "gated" /\ op = "VolumeReplicationsTable" /\ args # NoReplication

\* C25: for every status of a replication row, EnableReplication and
\* DisableReplication are never both allowed, FailoverReplication and
\* ReverseReplication are never both allowed, and DeleteReplication is never
\* allowed together with DisableReplication, FailoverReplication or
\* CreateCheckpoint: delete requires error, disabled or failed-over, those
\* three require enabled.
C25_GatesExclusive ==
    ReplicationGated =>
        /\ ~({"EnableReplication", "DisableReplication"} \subseteq ret.allowed)
        /\ ~({"FailoverReplication", "ReverseReplication"} \subseteq ret.allowed)
        /\ "DeleteReplication" \in ret.allowed =>
              ret.allowed \cap {"DisableReplication", "FailoverReplication",
                                "CreateCheckpoint"} = {}
        /\ "DeleteReplication" \in ret.allowed <=>
              args.status \in {"error", "disabled", "failed-over"}
        /\ \A a \in {"DisableReplication", "FailoverReplication",
                     "CreateCheckpoint"} :
              a \in ret.allowed <=> args.status = "enabled"

\* A disabled replication can be enabled or deleted and nothing else.
C25_Witness ==
    /\ ReplicationGated
    /\ args.status = "disabled"
    /\ ret.allowed = {"EnableReplication", "DeleteReplication"}

\* The volumes table has asked allowed of its actions for a row.
VolumeGated == pc = "gated" /\ op = "VolumesTable" /\ args # NoVolume

\* C26: DisableVolume is allowed for a volume row only when its status is
\* 'enabled' and its replicate_status is 'deleted', 'disabled' or None (and
\* then it is); with any other replicate_status the volume cannot be
\* disabled; DisableVolume and DeleteVolume (status available or error) are
\* never both allowed for one volume.
C26_DisableGate ==
    VolumeGated =>
        /\ "DisableVolume" \in ret.allowed <=>
              /\ args.status = "enabled"
              /\ args.replicate_status \in {"deleted", "disabled", None}
        /\ args.replicate_status \in
              ReplicationStatuses \ {"deleted", "disabled"} =>
                  "DisableVolume" \notin ret.allowed
        /\ "DeleteVolume" \in ret.allowed <=>
              args.status \in {"available", "error"}
        /\ ~({"DisableVolume", "DeleteVolume"} \subseteq ret.allowed)

\* An enabled volume under a running replication: nothing is allowed.
C26_Witness ==
    /\ VolumeGated
    /\ args.status = "enabled"
    /\ args.replicate_status = "enabled"
    /\ ret.allowed = {}

\* The rollback form of a replication has been built.
RollbackFormBuilt ==
    pc = "form" /\ op = "RollbackForm" /\ ret.result = "form"

\* The checkpoints the form offers: its choices without the placeholder.
Offered == {ret.choices[i] : i \in 2..Len(ret.choices)}

\* C27: when RollbackReplication is allowed for a replication (status
\* 'enabled' and a checkpoint of the replication exists), the RollbackForm
\* built for it against the same backend offers at least one checkpoint and
\* only checkpoints of that replication; a replication without checkpoint
\* does not have the action.
C27_AllowedRollbackHasChoice ==
    /\ (RollbackFormBuilt /\ how = "link") => Offered # {}
    /\ RollbackFormBuilt =>
          /\ ret.choices[1] = ""
          /\ \A c \in Offered :
                c \in Range(backend) /\ replication_id(c) = args.id
          /\ Offered = {c \in Range(backend) : replication_id(c) = args.id}
    /\ ReplicationGated =>
          /\ "RollbackReplication" \in ret.allowed =>
                /\ args.status = "enabled"
                /\ \E c \in Range(backend) : replication_id(c) = args.id
          /\ (\A c \in Range(backend) : replication_id(c) # args.id) =>
                "RollbackReplication" \notin ret.allowed
          /\ (args.status = "enabled" /\ ~fetched.raised /\
              \E c \in Range(backend) : replication_id(c) = args.id) =>
                "RollbackReplication" \in ret.allowed

\* The form reached by the link of replication q offers its two checkpoints
\* out of a larger collection.
C27_Witness ==
    /\ RollbackFormBuilt /\ how = "link"
    /\ args.id = "q"
    /\ Cardinality(Offered) = 2
    /\ Len(backend) > 3

==============================================================================
